---- MODULE Spec2Model ----
(***************************************************************************)
(* The .rm -> SVG converters src/rM2svg ("orig") and src/rM2svg_improved   *)
(* ("improved") as one state machine.  A process holds one script (with    *)
(* its module-level palette stroke_colour) and one input buffer, and calls *)
(* rm2svg on it up to MaxCalls times with different options.               *)
(*                                                                         *)
(* Numbers.  A 4-byte word of the buffer is its uint32 value.  A float is  *)
(* kept in eighths (2.0 is 16); F32 reads a word as a float.  What the     *)
(* scripts print with '{:.3f}' is kept in thousandths, rounded.            *)
(*                                                                         *)
(* The tree of src/remarkableExplorer.ts is a second state machine,        *)
(* ExplorerSpec, over the files of a tablet.  The connection manager of    *)
(* src/connectionManager.ts with the explorer's event handlers, and the    *)
(* conversion a preview starts, are a third one, SessionSpec.              *)
(***************************************************************************)
EXTENDS Integers, Sequences, FiniteSets, TLC

\* ------------------------------------------------------------------ bounds
MaxCalls == 2
\* segments of the first stroke of the truncation-sweep document
SweepSegs == 2
\* segments of the long Brush and TiltPencil strokes
LongSegs == 17
\* Client objects one session creates (calls of connect)
MaxClients == 2

\* ------------------------------------------------------- program constants
HeaderLen == 43
HeaderSize == 47
LayerCountSize == 4
StrokeSizeV3 == 20
StrokeSizeV5 == 24
SegmentSize == 24
MaxSaneLayers == 100
ClampedLayers == 10
MaxSaneStrokes == 1000000
default_x_width == 1404
default_y_width == 1872

Scripts == {"orig", "improved"}

\* ------------------------------------------------------------ arithmetic
\* a/b rounded to the nearest integer (b > 0), halves away from zero
RoundDiv(a, b) ==
    IF a >= 0 THEN (2 * a + b) \div (2 * b)
    ELSE -((2 * (-a) + b) \div (2 * b))

\* p*m/d rounded, without forming p*m (p >= 0, m >= 0, d > 0)
MulDivRound(p, m, d) == m * (p \div d) + RoundDiv(m * (p % d), d)

\* ---------------------------------------------------------------- floats
\* IEEE-754 single bit patterns of the floats the input buffers hold, with
\* the value in eighths.
FloatTable ==
    { <<0, 0>>,                   \* 0.0
      <<1056964608, 4>>,          \* 0.5
      <<1065353216, 8>>,          \* 1.0
      <<1072693248, 15>>,         \* 1.875
      <<1073741824, 16>>,         \* 2.0
      <<1074266112, 17>>,         \* 2.125
      <<1120403456, 800>>,        \* 100.0
      <<1143963648, 5616>>,       \* 702.0
      <<1147797504, 7488>>,       \* 936.0
      <<1152352256, 11232>>,      \* 1404.0
      <<1156186112, 14976>>  }    \* 1872.0

\* struct.pack('<f', v): the word of a float given in eighths
Bits(v8) == (CHOOSE e \in FloatTable : e[2] = v8)[1]

\* struct.unpack '<f' of a word.  Every other word of the model is below
\* 2^23, a denormal (under 1.2e-38), which every formula of the scripts
\* and '{:.3f}' treat as 0.
F32(w) ==
    IF \E e \in FloatTable : e[1] = w
    THEN (CHOOSE e \in FloatTable : e[1] = w)[2]
    ELSE 0

\* ---------------------------------------------------------- input buffers
\* A buffer is its byte length len, the 43 signature bytes (their class sig
\* and the digits ver after "version="), the uint32 nlayers at byte 43, and
\* body, the complete 4-byte words from byte 47 on.  Classes of signature:
\*   canon    "reMarkable .lines file, version=V" padded with spaces
\*   anychar  as canon with another character for the '.' of ".lines"
\*   loose    "reMarkable" ... "version=V" with other text around
\*   nonutf8  as canon with a byte that is not UTF-8 in the padding
\*   bad      no "reMarkable" ... "version=" in it
SigClasses == {"canon", "anychar", "loose", "nonutf8", "bad"}
Versions == {"3", "4", "5", "6", "9"}
LayerCounts == {0, 1, 2, 101, 5000}

Min(a, b) == IF a < b THEN a ELSE b

RECURSIVE Flatten(_)
Flatten(ss) == IF ss = <<>> THEN <<>> ELSE Head(ss) \o Flatten(Tail(ss))

\* '<ffffff': x, y, pressure, tilt and two unused floats
EncSegment(sg) ==
    <<Bits(sg.x), Bits(sg.y), Bits(sg.pressure), Bits(sg.tilt), 0, 0>>

\* '<IIIfI' (versions 3, 4) and '<IIIfII' (versions 5, 6)
EncStroke(st, ver) ==
    <<st.pen, st.colour, 0, Bits(st.width)>>
    \o (IF ver \in {"3", "4"} THEN <<>> ELSE <<0>>)
    \o <<st.nsegments>>
    \o Flatten([i \in 1..Len(st.segs) |-> EncSegment(st.segs[i])])

EncLayer(ly, ver) ==
    <<ly.nstrokes>>
    \o Flatten([i \in 1..Len(ly.strokes) |-> EncStroke(ly.strokes[i], ver)])

EncBody(layers, ver) ==
    Flatten([i \in 1..Len(layers) |-> EncLayer(layers[i], ver)])

\* the first n bytes of the file with header hdr and body words
Truncated(hdr, words, n) ==
    [len     |-> n,
     sig     |-> hdr.sig,
     ver     |-> hdr.ver,
     nlayers |-> IF n >= HeaderSize THEN hdr.nlayers ELSE 0,
     body    |-> IF n >= HeaderSize
                 THEN SubSeq(words, 1, Min((n - HeaderSize) \div 4, Len(words)))
                 ELSE <<>>]

FullLen(words) == HeaderSize + 4 * Len(words)

\* sample points of the native 1404 x 1872 canvas, in eighths
SamplePoints ==
    << [x |-> 5616, y |-> 7488], [x |-> 11232, y |-> 14976],
       [x |-> 0, y |-> 0], [x |-> 800, y |-> 5616] >>

SampleSegment(i) ==
    LET pt == SamplePoints[((i - 1) % Len(SamplePoints)) + 1]
    IN  [x |-> pt.x, y |-> pt.y, pressure |-> 4, tilt |-> 8]

Stroke(p, c, w8, n) ==
    [pen |-> p, colour |-> c, width |-> w8, nsegments |-> n,
     segs |-> [i \in 1..n |-> SampleSegment(i)]]

\* Family 1: every header, over eleven stroke counts (one of them over the
\* sanity threshold), cut around the header and around the tenth layer.
CountsBody == <<0, 0, 0, 1000001, 0, 0, 0, 0, 0, 0, 0>>
HeaderCuts == {0, 46, 47, 48, 51, 87, 91}
HeaderFamily ==
    { Truncated([sig |-> s, ver |-> v, nlayers |-> n], CountsBody, k) :
        s \in SigClasses, v \in Versions, n \in LayerCounts, k \in HeaderCuts }

\* Family 2: a two-layer document cut at every byte after the header.
SweepDoc ==
    << [nstrokes |-> 2,
        strokes  |-> << Stroke(2, 0, 16, SweepSegs), Stroke(0, 1, 16, 1) >>],
       [nstrokes |-> 0, strokes |-> <<>>] >>
SweepFamily ==
    UNION { { Truncated([sig |-> "canon", ver |-> v, nlayers |-> n],
                        EncBody(SweepDoc, v), k) :
                k \in HeaderSize..FullLen(EncBody(SweepDoc, v)) } :
            v \in {"3", "5"}, n \in {1, 2} }

\* Family 3: one stroke of every pen and colour index, whole.
Pens == {0, 1, 2, 3, 4, 5, 6, 7, 8, 42}
Colours == {0, 1, 2, 3, 7}
StyleFamily ==
    { Truncated([sig |-> "canon", ver |-> "5", nlayers |-> 1],
                EncBody(<< [nstrokes |-> 1,
                            strokes  |-> << Stroke(p, c, w, 1) >>] >>, "5"),
                HeaderSize + 4 + StrokeSizeV5 + SegmentSize) :
        p \in Pens, c \in Colours, w \in {15, 16} }

\* -------------------------------------------------------- pure functions
\* struct.unpack_from(fmt, data, off) succeeds iff the buffer holds size
\* bytes from off; it raises struct.error otherwise.
CanUnpack(d, off, size) == off + size <= d.len

\* the word at byte offset off of the body (0 outside the buffer)
WordAt(d, off) ==
    LET i == ((off - HeaderSize) \div 4) + 1
    IN  IF off >= HeaderSize /\ i \in 1..Len(d.body) THEN d.body[i] ELSE 0

\* orig: str(header, 'utf-8') raises UnicodeDecodeError
HeaderDecodes(s, d) == s = "improved" \/ d.sig # "nonutf8"

\* orig: ^reMarkable .lines file, version=([3456])          $  (the '.' of
\*       ".lines" is not escaped, so it matches any character)
\* improved: ^reMarkable \.lines file, version=([0-9]+)\s*$, and failing
\*       that a search for reMarkable.*version=([0-9]+)
HeaderMatches(s, d) ==
    IF s = "orig"
    THEN d.sig \in {"canon", "anychar"} /\ d.ver \in {"3", "4", "5", "6"}
    ELSE d.sig \in {"canon", "anychar", "loose", "nonutf8"}

\* improved only: the header matched through the alternative pattern
MatchedAlternative(d) == d.sig \in {"anychar", "loose", "nonutf8"}

KnownVersion(ver) == ver \in {"3", "4", "5", "6"}

\* one layout for every version
StrokeSize_AlwaysV5(ver) == StrokeSizeV5

\* struct.calcsize(_stroke_fmt_by_vers[version]), unknown versions as '5'
StrokeSize(ver) ==
    LET version == IF KnownVersion(ver) THEN ver ELSE "5"
    IN  IF version \in {"3", "4"} THEN StrokeSizeV3 ELSE StrokeSizeV5

\* no clamp
ClampLayers_Off(n) == n

\* nlayers = min(nlayers, 10) when over 100
ClampLayers(n) == IF n > MaxSaneLayers THEN Min(n, ClampedLayers) ELSE n

\* the dictionary stroke_colour in its two states
Palette(pal) ==
    IF pal = "coloured"
    THEN [i \in 0..3 |-> <<"blue", "red", "white", "yellow">>[i + 1]]
    ELSE [i \in 0..3 |-> <<"black", "grey", "white", "yellow">>[i + 1]]

\* the colour name written: orig get_stroke_color(colour); improved
\* replaces an index missing from stroke_colour by 0 and looks that up
ColourName(s, pal, c) ==
    IF c \in DOMAIN Palette(pal) THEN Palette(pal)[c]
    ELSE IF s = "orig" THEN "black"
    ELSE Palette(pal)[0]

\* improved: "if colour not in stroke_colour: colour = 0"; orig keeps the
\* index and leaves the fallback to get_stroke_color
ValidColour(s, pal, c) ==
    IF s = "improved" /\ c \notin DOMAIN Palette(pal) THEN 0 ELSE c

\* no pen overrides the colour
PenColour_NoOverride(p, c, coloured) == c

\* the colour index after the pen's override
PenColour(p, c, coloured) ==
    IF p = 5 /\ coloured THEN 3
    ELSE IF p = 6 THEN 2
    ELSE c

\* 64 times the pen's width formula, for a raw width of w8 eighths
PenWidth64(p, w8) ==
    IF p \in {2, 4} THEN 32 * w8 * w8 - 116 * 8 * w8 + 107 * 64
    ELSE IF p = 3 THEN 64 * 8 * w8 - 112 * 64
    ELSE IF p = 5 THEN 30 * 64
    ELSE IF p = 6 THEN 1280 * w8 * w8 - 4800 * 8 * w8 + 4510 * 64
    ELSE IF p = 7 THEN 16 * 8 * w8 - 27 * 64
    ELSE 8 * w8

UnknownPen(p) == p \notin 0..8

\* the opacity of the stroke's polyline, in thousandths
PenOpacity(s, p) ==
    IF p \in {3, 7} THEN 900
    ELSE IF p = 5 THEN 200
    ELSE IF p = 8 THEN 0
    ELSE IF UnknownPen(p) THEN (IF s = "orig" THEN 1000 ELSE 0)
    ELSE 1000

\* width /= 2.3, printed with '{:.3f}': w64/(64 * 2.3) in thousandths
WidthText(w64) == RoundDiv(w64 * 625, 92)

\* Brush: (5 tilt)(6 width - 10)(1 + 2 pressure^3) with width = w64/147.2,
\* in thousandths: 3125 t8 (3 w64/8 - 92)(256 + p8^3) / 11776
BrushWidthText(w64, p8, t8) ==
    RoundDiv(3125 * t8 * (3 * (w64 \div 8) - 92) * (256 + p8 * p8 * p8), 11776)

\* TiltPencil: (10 tilt - 2)(8 width - 14), in thousandths
TiltWidthText(w64, t8) ==
    RoundDiv((10 * t8 - 16) * (40 * (w64 \div 8) - 1288) * 125, 92)

\* TiltPencil: (pressure - .2)^2, in thousandths
TiltOpacityText(p8) == RoundDiv((5 * p8 - 8) * (5 * p8 - 8) * 5, 8)

\* ratio = (y_width/x_width)/(1872/1404) > 1
RatioAboveOne(xw, yw) == yw * default_x_width > xw * default_y_width

\* a converter that keeps the shift of the page the scripts have commented
\* out (xpos += 60, ypos -= 20)
MapPoint_Shifted(x8, y8, xw, yw) ==
    IF RatioAboveOne(xw, yw)
    THEN [x |-> MulDivRound((x8 + 480) * yw, 125, default_y_width),
          y |-> MulDivRound((y8 - 160) * yw, 125, default_y_width)]
    ELSE [x |-> MulDivRound((x8 + 480) * xw, 125, default_x_width),
          y |-> MulDivRound((y8 - 160) * xw, 125, default_x_width)]

\* the mapped point, in thousandths.  With ratio > 1 the code computes
\* ratio*((x*xw)/1404) = x*yw/1872 and (y*yw)/1872; otherwise (x*xw)/1404
\* and (1/ratio)*(y*yw)/1872 = y*xw/1404.
MapPoint(x8, y8, xw, yw) ==
    IF RatioAboveOne(xw, yw)
    THEN [x |-> MulDivRound(x8 * yw, 125, default_y_width),
          y |-> MulDivRound(y8 * yw, 125, default_y_width)]
    ELSE [x |-> MulDivRound(x8 * xw, 125, default_x_width),
          y |-> MulDivRound(y8 * xw, 125, default_x_width)]

\* Family 4: one layer whose only stroke declares one segment more than
\* SweepSegs, cut at every byte from the end of the stroke header on.
SingleStrokeFamily ==
    UNION { { Truncated([sig |-> "canon", ver |-> v, nlayers |-> 1],
                        EncBody(<< [nstrokes |-> 1,
                                    strokes  |-> << Stroke(p, 0, 16,
                                                    SweepSegs + 1) >>] >>, v),
                        k) :
                k \in (HeaderSize + 4 + StrokeSize(v))
                       ..(HeaderSize + 4 + StrokeSize(v)
                            + SegmentSize * (SweepSegs + 1)) } :
            v \in {"3", "5"}, p \in {2, 1} }

\* a whole file of the given version and layers
WholeFile(v, layers) ==
    Truncated([sig |-> "canon", ver |-> v, nlayers |-> Len(layers)],
              EncBody(layers, v), FullLen(EncBody(layers, v)))

OneStrokeLayer(st) == [nstrokes |-> 1, strokes |-> << st >>]

\* Family 5: one Fineliner stroke of no or one segment, in every version.
VersionFamily ==
    { WholeFile(v, << OneStrokeLayer(Stroke(4, 0, 16, n)) >>) :
        v \in Versions, n \in {0, 1} }

\* Family 6: one Brush, TiltPencil or Ballpoint stroke of LongSegs segments.
LongStrokeFamily ==
    { WholeFile(v, << OneStrokeLayer(Stroke(p, 1, 16, LongSegs)) >>) :
        v \in {"3", "5"}, p \in {0, 1, 2} }

\* Family 7: three layers, the second declaring a stroke count at or over
\* the sanity threshold.  The file with the count at the threshold ends
\* after that count.
SkipFamily ==
    UNION { { Truncated([sig |-> "canon", ver |-> v, nlayers |-> 3],
                        EncLayer(OneStrokeLayer(Stroke(2, 0, 16, 1)), v)
                          \o << MaxSaneStrokes + 1 >>
                          \o EncLayer(OneStrokeLayer(Stroke(3, 1, 16, 1)), v),
                        HeaderSize + 4 * (2 * (StrokeSize(v) \div 4)
                                            + 2 * 6 + 3)),
              Truncated([sig |-> "canon", ver |-> v, nlayers |-> 3],
                        EncLayer(OneStrokeLayer(Stroke(2, 0, 16, 1)), v)
                          \o << MaxSaneStrokes >>,
                        HeaderSize + 4 * ((StrokeSize(v) \div 4) + 6 + 2)) } :
            v \in {"3", "5"} }

\* Family 8: one Brush or TiltPencil stroke that declares LongSegs segments
\* and ends after 8 or 9 of them, or that declares none.
RunBoundaryFamily ==
    { Truncated([sig |-> "canon", ver |-> "5", nlayers |-> 1],
                EncBody(<< OneStrokeLayer(Stroke(p, 1, 16, LongSegs)) >>,
                        "5"),
                HeaderSize + 4 + StrokeSizeV5 + SegmentSize * k) :
        p \in {0, 1}, k \in {8, 9} }
    \cup { WholeFile("5", << OneStrokeLayer(Stroke(p, 1, 16, 0)) >>) :
              p \in {0, 1} }

Buffers ==
    HeaderFamily \cup SweepFamily \cup StyleFamily \cup SingleStrokeFamily
    \cup VersionFamily \cup LongStrokeFamily \cup SkipFamily
    \cup RunBoundaryFamily

Canvases ==
    { [x_width |-> default_x_width, y_width |-> default_y_width],
      [x_width |-> 702, y_width |-> default_y_width] }

\* ------------------------------------------------------------------ state
VARIABLES
    script,         \* which of the two scripts this process runs
    data,           \* the bytes of the input file
    stroke_colour,  \* the module-level palette: "normal" or "coloured"
    calls,          \* calls of rm2svg started in this process
    args,           \* the arguments of the current call
    pc,             \* position in rm2svg
    exitCode,       \* -1 running, 0 returned, 1 sys.exit(1) or a traceback
    file,           \* the output file: "none", "open", "closed"
    output,         \* what was written to the output file, in order
    diag,           \* the lines printed to stdout and stderr, by kind
    offset,
    nlayers,
    layer,
    nstrokes,
    stroke,
    nsegments,
    segment,
    stroke_size,    \* struct.calcsize(_stroke_fmt)
    pen,
    colour,
    width,          \* 64 * 2.3 times the script's width
    opacity,        \* in thousandths
    last_x,         \* in thousandths (orig only)
    last_y,
    lastRead,       \* the last unpack_from that returned: [at, size]
    iters,          \* loop bodies entered in the current call
    segsRead,       \* the mapped points of the current stroke's segments
    unpacks         \* the unpack_from attempts of the current call, in order

converterVars ==
    << script, data, stroke_colour, calls, args, pc, exitCode, file,
       output, diag, offset, nlayers, layer, nstrokes, stroke,
       nsegments, segment, stroke_size, pen, colour, width, opacity,
       last_x, last_y, lastRead, iters, segsRead, unpacks >>

\* ------------------------------------------------- the explorer: its state
\* RemarkableExplorer (remarkableExplorer.ts), the tree the editor shows.
VARIABLES
    device,         \* the files of the documents directory on the tablet
    documents,      \* this.documents, in insertion order
    showRawFiles,
    isConnected,
    view            \* what getChildren last returned, by tree element

\* RemarkableConnectionManager (connectionManager.ts) and the conversion
\* started by a preview (convertRmToSvg of remarkableExplorer.ts).
VARIABLES
    client,         \* this.client: the Client kept, 0 for null
    connected,      \* this.connected
    clients,        \* the state of every Client created, by identity
    rmFile,         \* the input file of the last convertRmToSvg call
    processes,      \* the converter processes spawned by that call
    resolved        \* what the call's promise resolved to

sessionVars == << client, connected, clients, rmFile, processes, resolved >>

explorerVars ==
    << device, documents, showRawFiles, isConnected, view, sessionVars >>

\* no element was asked for its children yet
NoView == [e \in {} |-> <<>>]

\* the explorer after its constructor
Constructed ==
    /\ documents = <<>>
    /\ isConnected = FALSE
    /\ view = NoView

\* the connection manager after its constructor, no Client created yet
ManagerConstructed ==
    /\ client = 0
    /\ connected = FALSE
    /\ clients = [c \in 1..MaxClients |-> "none"]

\* convertRmToSvg was not called yet
NoConversion ==
    /\ rmFile = "none"
    /\ processes = <<>>
    /\ resolved = "none"

vars == << converterVars, explorerVars >>

loopVars == << layer, nstrokes, stroke, nsegments, segment >>
strokeVars == << pen, colour, width, opacity, last_x, last_y, segsRead >>

NoArgs ==
    [coloured_annotations |-> FALSE, verbose |-> FALSE,
     x_width |-> default_x_width, y_width |-> default_y_width]

\* no call of rm2svg was made yet
ConverterIdle ==
    /\ stroke_colour = "normal"
    /\ calls = 0
    /\ args = NoArgs
    /\ pc = "idle"
    /\ exitCode = -1
    /\ file = "none"
    /\ output = <<>>
    /\ diag = <<>>
    /\ offset = 0
    /\ nlayers = 0
    /\ layer = 0
    /\ nstrokes = 0
    /\ stroke = 0
    /\ nsegments = 0
    /\ segment = 0
    /\ stroke_size = 0
    /\ pen = 0
    /\ colour = 0
    /\ width = 0
    /\ opacity = 0
    /\ last_x = -1000
    /\ last_y = -1000
    /\ lastRead = [at |-> 0, size |-> 0]
    /\ iters = 0
    /\ segsRead = <<>>
    /\ unpacks = <<>>

\* a converter process with its script and input, beside an explorer that
\* is not in use
Init ==
    /\ script \in Scripts
    /\ data \in Buffers
    /\ ConverterIdle
    /\ device = <<>>
    /\ showRawFiles = FALSE
    /\ Constructed
    /\ ManagerConstructed
    /\ NoConversion

\* a line printed when cond holds
Line(cond, kind) == IF cond THEN <<kind>> ELSE <<>>

Improved == script = "improved"
Verbose == args.verbose

\* set_coloured_annots(): the palette a call leaves in stroke_colour
PaletteAfterCall(pal, coloured) == IF coloured THEN "coloured" ELSE pal

\* rm2svg is called: the arguments are bound, the palette is switched when
\* coloured_annotations is set, and the input file is read.
Begin ==
    /\ pc = "idle" \/ (pc = "done" /\ exitCode = 0)
    /\ calls < MaxCalls
    /\ \E c \in BOOLEAN, v \in BOOLEAN, cv \in Canvases :
         /\ args' = [coloured_annotations |-> c, verbose |-> v,
                     x_width |-> cv.x_width, y_width |-> cv.y_width]
         /\ stroke_colour' = PaletteAfterCall(stroke_colour, c)
         /\ diag' = Line(Improved /\ v, "info")
    /\ calls' = calls + 1
    /\ pc' = "header"
    /\ exitCode' = -1
    /\ file' = "none"
    /\ output' = <<>>
    /\ offset' = 0
    /\ nlayers' = 0
    /\ layer' = 0
    /\ nstrokes' = 0
    /\ stroke' = 0
    /\ nsegments' = 0
    /\ segment' = 0
    /\ stroke_size' = 0
    /\ pen' = 0
    /\ colour' = 0
    /\ width' = 0
    /\ opacity' = 0
    /\ last_x' = -1000
    /\ last_y' = -1000
    /\ lastRead' = [at |-> 0, size |-> 0]
    /\ iters' = 0
    /\ segsRead' = <<>>
    /\ unpacks' = <<>>
    /\ UNCHANGED << script, data >>
    /\ UNCHANGED explorerVars

\* One attempt to unpack size bytes at byte at: the length check the
\* scripts make before struct.unpack_from and, when it passes (ok), the
\* unpack itself.  layer, stroke and segment are the loop indices (-1
\* outside the loop).
Attempt(kind, at, size, ok, ly, st, sg) ==
    [kind |-> kind, at |-> at, size |-> size, ok |-> ok,
     layer |-> ly, stroke |-> st, segment |-> sg]

\* abort(msg), or an uncaught exception: the call ends the process
Fail(kind) ==
    /\ diag' = diag \o <<kind>>
    /\ exitCode' = 1
    /\ pc' = "done"

\* a header check against the wrong size
HeaderFits_49(d) == d.len >= HeaderLen + 6

\* the header is long enough to unpack
HeaderFits(d) == d.len >= HeaderLen + 4

\* a header check that forgets the layer count
HeaderAccepted_NoLayerCheck(s, d) == HeaderMatches(s, d)

\* the header names a file this script converts
HeaderAccepted(s, d) == HeaderMatches(s, d) /\ d.nlayers >= 1

\* The length check, the unpacking of signature and layer count, the match
\* of the signature, the layer-count clamp and the choice of stroke format.
ParseHeader ==
    /\ pc = "header"
    /\ IF ~HeaderFits(data)
       THEN /\ Fail("too_short")
            /\ UNCHANGED << offset, lastRead, nlayers, stroke_size >>
       ELSE /\ offset' = HeaderSize
            /\ lastRead' = [at |-> 0, size |-> HeaderSize]
            /\ IF ~HeaderDecodes(script, data)
               THEN /\ Fail("traceback")
                    /\ UNCHANGED << nlayers, stroke_size >>
               ELSE IF ~HeaderAccepted(script, data)
               THEN /\ Fail(IF HeaderMatches(script, data) /\ Improved
                            THEN "invalid_nlayers" ELSE "invalid_header")
                    /\ UNCHANGED << nlayers, stroke_size >>
               ELSE /\ nlayers' = ClampLayers(data.nlayers)
                    /\ stroke_size' = StrokeSize(data.ver)
                    /\ diag' = diag
                         \o Line(Improved /\ Verbose, "info")
                         \o Line(Improved /\ Verbose
                                   /\ MatchedAlternative(data), "info")
                         \o Line(Verbose /\ data.nlayers > MaxSaneLayers,
                                 "clamp_layers")
                         \o Line(Verbose, "info")
                         \o Line(Improved /\ ~KnownVersion(data.ver),
                                 "unknown_version")
                    /\ pc' = "open"
                    /\ UNCHANGED exitCode
    /\ unpacks' = Append(unpacks, Attempt("header", 0, HeaderSize,
                                          HeaderFits(data), -1, -1, -1))
    /\ UNCHANGED << script, data, stroke_colour, calls, args, file, output,
                    iters >>
    /\ UNCHANGED explorerVars
    /\ UNCHANGED loopVars
    /\ UNCHANGED strokeVars

\* what is written before the first layer
Preamble(s, a) ==
    IF s = "orig"
    THEN << [t |-> "svg", height |-> a.y_width, width |-> a.x_width],
            [t |-> "script"], [t |-> "g"] >>
    ELSE << [t |-> "svg", height |-> a.y_width, width |-> a.x_width] >>

\* an ending that leaves the root element open
Postamble_NoRootClose(s, a) ==
    IF s = "orig"
    THEN << [t |-> "rect", width |-> a.x_width, height |-> a.y_width],
            [t |-> "/g"] >>
    ELSE <<>>

\* what is written after the last layer
Postamble(s, a) ==
    IF s = "orig"
    THEN << [t |-> "rect", width |-> a.x_width, height |-> a.y_width],
            [t |-> "/g"], [t |-> "/svg"] >>
    ELSE << [t |-> "/svg"] >>

\* open(output_name, 'w') and the writes before the layer loop
OpenOutput ==
    /\ pc = "open"
    /\ file' = "open"
    /\ output' = Preamble(script, args)
    /\ layer' = 0
    /\ pc' = "layer"
    /\ UNCHANGED << script, data, stroke_colour, calls, args, exitCode, diag,
                    offset, nlayers, nstrokes, stroke, nsegments, segment,
                    stroke_size, lastRead, iters, unpacks >>
    /\ UNCHANGED explorerVars
    /\ UNCHANGED strokeVars

\* the checks made before each unpack_from (orig checks the layer count
\* explicitly, improved leaves it to struct.error; both end the loop)
LayerCountFits_Always(d, off) == TRUE
LayerCountFits_AnyByte(d, off) == off < d.len
LayerCountFits(d, off) == CanUnpack(d, off, LayerCountSize)
StrokeHeaderFits(d, off, size) == CanUnpack(d, off, size)
SegmentFits_OneWord(d, off) == CanUnpack(d, off, LayerCountSize)
SegmentFits(d, off) == CanUnpack(d, off, SegmentSize)

\* a threshold that rejects the count it should still accept
TooManyStrokes_AtThreshold(n) == n >= MaxSaneStrokes

\* a layer's stroke count is taken as corrupted
TooManyStrokes(n) == n > MaxSaneStrokes

\* One pass through the head of "for layer in range(nlayers)": the loop
\* ends, or the stroke count is missing (break), or it is read and is
\* either rejected (continue) or starts the stroke loop.
LayerStep ==
    /\ pc = "layer"
    /\ IF layer >= nlayers
       THEN /\ pc' = "finish"
            /\ UNCHANGED << diag, offset, lastRead, iters, layer, nstrokes,
                            stroke, unpacks >>
       ELSE /\ iters' = iters + 1
            /\ unpacks' = Append(unpacks,
                 Attempt("count", offset, LayerCountSize,
                         LayerCountFits(data, offset), layer, -1, -1))
            /\ IF ~LayerCountFits(data, offset)
               THEN /\ diag' = diag
                         \o Line(Improved /\ Verbose, "info")
                         \o Line(Verbose, "layer_header_missing")
                    /\ pc' = "finish"
                    /\ UNCHANGED << offset, lastRead, layer, nstrokes,
                                    stroke >>
               ELSE LET n == WordAt(data, offset)
                    IN  /\ nstrokes' = n
                        /\ offset' = offset + LayerCountSize
                        /\ lastRead' = [at |-> offset,
                                        size |-> LayerCountSize]
                        /\ IF TooManyStrokes(n)
                           THEN /\ diag' = diag
                                     \o Line(Improved /\ Verbose, "info")
                                     \o Line(Verbose, "layer_skipped")
                                /\ layer' = layer + 1
                                /\ pc' = "layer"
                                /\ UNCHANGED stroke
                           ELSE /\ diag' = diag
                                     \o Line(Improved /\ Verbose, "info")
                                     \o Line(Verbose, "info")
                                /\ stroke' = 0
                                /\ pc' = "stroke"
                                /\ UNCHANGED layer
    /\ UNCHANGED << script, data, stroke_colour, calls, args, exitCode, file,
                    output, nlayers, nsegments, segment, stroke_size >>
    /\ UNCHANGED explorerVars
    /\ UNCHANGED strokeVars

\* the polyline that opens a stroke (its opacity is written with '{}';
\* opens tells it from the polylines written at every eighth segment)
StrokePolyline(s, pal, p, c, w64) ==
    [t |-> "polyline", opens |-> "stroke",
     stroke |-> ColourName(s, pal, c),
     width |-> WidthText(w64), opacity |-> PenOpacity(s, p)]

\* a converter that leaves out the strokes nobody can see
StrokeOpening_SkipInvisible(s, pal, p, c, w64) ==
    IF PenOpacity(s, p) = 0 THEN <<>>
    ELSE << StrokePolyline(s, pal, p, c, w64) >>

\* what is written once a stroke header is read
StrokeOpening(s, pal, p, c, w64) == << StrokePolyline(s, pal, p, c, w64) >>

\* get_stroke_color prints when the index is not in stroke_colour (orig)
ColourLine(s, pal, c) ==
    Line(s = "orig" /\ c \notin DOMAIN Palette(pal), "unknown_color")

\* One pass through the head of "for stroke in range(nstrokes)": the loop
\* ends, or the header does not fit (break), or the header is read, the
\* pen's style computed and the stroke's polyline opened.
StrokeStep ==
    /\ pc = "stroke"
    /\ IF stroke >= nstrokes
       THEN /\ layer' = layer + 1
            /\ pc' = "layer"
            /\ UNCHANGED << diag, offset, lastRead, iters, output,
                            nsegments, segment, unpacks >>
            /\ UNCHANGED strokeVars
       ELSE /\ iters' = iters + 1
            /\ unpacks' = Append(unpacks,
                 Attempt("stroke", offset, stroke_size,
                         StrokeHeaderFits(data, offset, stroke_size),
                         layer, stroke, -1))
            /\ IF ~StrokeHeaderFits(data, offset, stroke_size)
               THEN /\ diag' = diag
                         \o Line(~Improved \/ Verbose,
                                 "stroke_header_missing")
                    /\ layer' = layer + 1
                    /\ pc' = "layer"
                    /\ UNCHANGED << offset, lastRead, output, nsegments,
                                    segment >>
                    /\ UNCHANGED strokeVars
               ELSE LET p   == WordAt(data, offset)
                        c2  == PenColour(p, WordAt(data, offset + 4),
                                         args.coloured_annotations)
                        w64 == PenWidth64(p, F32(WordAt(data, offset + 12)))
                        n   == WordAt(data, offset + stroke_size - 4)
                    IN  /\ offset' = offset + stroke_size
                        /\ lastRead' = [at |-> offset, size |-> stroke_size]
                        /\ pen' = p
                        /\ colour' = ValidColour(script, stroke_colour, c2)
                        /\ width' = w64
                        /\ opacity' = PenOpacity(script, p)
                        /\ nsegments' = n
                        /\ last_x' = -1000
                        /\ last_y' = -1000
                        /\ segsRead' = <<>>
                        /\ diag' = diag
                             \o Line(Improved /\ Verbose /\ stroke = 0,
                                     "info")
                             \o Line(UnknownPen(p) /\ (~Improved \/ Verbose),
                                     "unknown_pen")
                             \o ColourLine(script, stroke_colour, c2)
                        /\ output' = output
                             \o StrokeOpening(script, stroke_colour, p, c2,
                                              w64)
                        /\ segment' = 0
                        /\ pc' = "segment"
                        /\ UNCHANGED layer
    /\ UNCHANGED << script, data, stroke_colour, calls, args, exitCode, file,
                    nlayers, nstrokes, stroke, stroke_size >>
    /\ UNCHANGED explorerVars

\* the polyline a Brush or TiltPencil stroke restarts with at every eighth
\* segment (the Brush one carries no opacity: -1)
RunPolyline(s, pal, p, c, w64, p8, t8) ==
    IF p = 0
    THEN [t |-> "polyline", opens |-> "run",
          stroke |-> ColourName(s, pal, c),
          width |-> BrushWidthText(w64, p8, t8), opacity |-> -1]
    ELSE [t |-> "polyline", opens |-> "run",
          stroke |-> ColourName(s, pal, c),
          width |-> TiltWidthText(w64, t8), opacity |-> TiltOpacityText(p8)]

\* every pen restarts its polyline
StartsRun_AnyPen(p, seg) == seg % 8 = 0

\* the first run stays in the polyline that opens the stroke
StartsRun_AfterFirst(p, seg) == p \in {0, 1} /\ seg % 8 = 0 /\ seg > 0

\* segments at which a dynamic-width pen starts a new run
StartsRun(p, seg) == p \in {0, 1} /\ seg % 8 = 0

\* orig joins the new run to the point kept in last_x, last_y
JoinPoint(s, lx, ly) ==
    IF s = "orig" /\ lx # -1000
    THEN << [t |-> "pt", x |-> lx, y |-> ly] >>
    ELSE <<>>

\* One pass through the head of "for segment in range(nsegments)": the
\* loop ends or the segment does not fit (break), and the stroke's polyline
\* is closed; or the segment is read, mapped and written.
SegmentStep ==
    /\ pc = "segment"
    /\ IF segment >= nsegments
       THEN /\ output' = Append(output, [t |-> "/polyline"])
            /\ stroke' = stroke + 1
            /\ pc' = "stroke"
            /\ UNCHANGED << diag, offset, lastRead, iters, segment, last_x,
                            last_y, segsRead, unpacks >>
       ELSE /\ iters' = iters + 1
            /\ unpacks' = Append(unpacks,
                 Attempt("segment", offset, SegmentSize,
                         SegmentFits(data, offset), layer, stroke, segment))
            /\ IF ~SegmentFits(data, offset)
               THEN /\ diag' = diag
                         \o Line(~Improved \/ Verbose, "segment_missing")
                    /\ output' = Append(output, [t |-> "/polyline"])
                    /\ stroke' = stroke + 1
                    /\ pc' = "stroke"
                    /\ UNCHANGED << offset, lastRead, segment, last_x,
                                    last_y, segsRead >>
               ELSE LET pt  == MapPoint(F32(WordAt(data, offset)),
                                        F32(WordAt(data, offset + 4)),
                                        args.x_width, args.y_width)
                        p8  == F32(WordAt(data, offset + 8))
                        t8  == F32(WordAt(data, offset + 12))
                        run == StartsRun(pen, segment)
                    IN  /\ offset' = offset + SegmentSize
                        /\ lastRead' = [at |-> offset, size |-> SegmentSize]
                        /\ output' = output
                             \o (IF run
                                 THEN << [t |-> "/polyline"],
                                         RunPolyline(script, stroke_colour,
                                                     pen, colour, width,
                                                     p8, t8) >>
                                      \o JoinPoint(script, last_x, last_y)
                                 ELSE <<>>)
                             \o << [t |-> "pt", x |-> pt.x, y |-> pt.y] >>
                        /\ diag' = diag
                             \o (IF run
                                 THEN ColourLine(script, stroke_colour,
                                                 colour)
                                 ELSE <<>>)
                        /\ last_x' = IF run /\ ~Improved THEN pt.x
                                     ELSE last_x
                        /\ last_y' = IF run /\ ~Improved THEN pt.y
                                     ELSE last_y
                        /\ segsRead' = Append(segsRead, pt)
                        /\ segment' = segment + 1
                        /\ pc' = "segment"
                        /\ UNCHANGED stroke
    /\ UNCHANGED << script, data, stroke_colour, calls, args, exitCode, file,
                    nlayers, layer, nstrokes, nsegments, stroke_size, pen,
                    colour, width, opacity >>
    /\ UNCHANGED explorerVars

\* The writes after the layer loop, the closing of the file and the return.
Finish ==
    /\ pc = "finish"
    /\ output' = output \o Postamble(script, args)
    /\ file' = "closed"
    /\ diag' = diag \o Line(Improved /\ Verbose, "info")
    /\ exitCode' = 0
    /\ pc' = "done"
    /\ UNCHANGED << script, data, stroke_colour, calls, args, offset,
                    nlayers, stroke_size, lastRead, iters, unpacks >>
    /\ UNCHANGED explorerVars
    /\ UNCHANGED loopVars
    /\ UNCHANGED strokeVars

Next ==
    \/ Begin
    \/ ParseHeader
    \/ OpenOutput
    \/ LayerStep
    \/ StrokeStep
    \/ SegmentStep
    \/ Finish

Spec == Init /\ [][Next]_vars

\* rm2svg runs to its end without waiting for anything; a further call is
\* up to the caller.
Step ==
    ParseHeader \/ OpenOutput \/ LayerStep \/ StrokeStep \/ SegmentStep
    \/ Finish

FairSpec == Init /\ [][Next]_vars /\ WF_vars(Step)

\* ============================================================ the explorer
\* ---------------------------------------------------------- device contents
\* A file of the documents directory: <stem>.<ext>, and for a .metadata file
\* the fields of its JSON ("" for a field the JSON does not have).
MetadataFile(uuid, name, type, parent, deleted) ==
    [stem |-> uuid, ext |-> "metadata", visibleName |-> name, type |-> type,
     parent |-> parent, deleted |-> deleted]
OtherFile(uuid, ext) ==
    [stem |-> uuid, ext |-> ext, visibleName |-> "", type |-> "",
     parent |-> "", deleted |-> FALSE]

\* Tablets: a top-level folder A, a folder B, two documents and a file that
\* is no metadata, over the places B and the documents can be in.
Devices ==
    { << MetadataFile("A", nameA, "CollectionType", "", FALSE),
         MetadataFile("B", "Sub", "CollectionType", parentB, deletedB),
         MetadataFile("d1", "Page", "DocumentType", parent1, FALSE),
         OtherFile("d1", "content"),
         MetadataFile("d2", "", "", parent2, deleted2) >> :
        nameA \in {"Notes", "Documents"},
        parentB \in {"", "A", "trash"}, deletedB \in BOOLEAN,
        parent1 \in {"", "A", "B"},
        parent2 \in {"A", "B", "trash"}, deleted2 \in BOOLEAN }

\* the files of the templates directory
TemplateFiles == << OtherFile("Blank", "png"), OtherFile("Blank", "json"),
                    OtherFile("Grid", "svg") >>

\* f applied to every element of a sequence
Map(f(_), seq) == [i \in 1..Len(seq) |-> f(seq[i])]
Range(seq) == {seq[i] : i \in 1..Len(seq)}

\* ------------------------------------------------------------- tree items
\* new RemarkableFileItem(label, tooltip, collapsibleState, contextValue)
\* with its uuid ("" when not set) and children (<<>> when not set)
RemarkableFileItem(label, collapsibleState, contextValue, uuid, children) ==
    [label |-> label, collapsibleState |-> collapsibleState,
     contextValue |-> contextValue, uuid |-> uuid, children |-> children]

\* the element getChildren is called without
RootElement == RemarkableFileItem("", "Expanded", "root", "", <<>>)

DocumentsSection == RemarkableFileItem("Documents", "Expanded", "folder", "", <<>>)
TemplatesSection == RemarkableFileItem("Templates", "Collapsed", "folder", "", <<>>)
TrashSection == RemarkableFileItem("Trash", "Collapsed", "folder", "", <<>>)

\* --------------------------------------------------------- pure functions
\* loadDocuments: one document per .metadata file
loadDocuments(files) ==
    LET document(f) ==
            [uuid        |-> f.stem,
             visibleName |-> IF f.visibleName = "" THEN f.stem
                             ELSE f.visibleName,
             type        |-> IF f.type = "" THEN "DocumentType" ELSE f.type,
             parent      |-> f.parent,
             deleted     |-> f.deleted]
    IN  Map(document, SelectSeq(files, LAMBDA f : f.ext = "metadata"))

getRawFileList(docs) ==
    LET item(d) == RemarkableFileItem(d.uuid, "None", "document", "", <<>>)
    IN  Map(item, docs)

\* getParsedDocuments: the folders, the documents put into their parent
\* folder's children or into the root, then the folders without a parent
\* folder put into the root
getParsedDocuments(docs) ==
    LET isFolder(d) ==
            d.type = "CollectionType" /\ ~d.deleted /\ d.parent # "trash"
        isDocument(d) ==
            d.type # "CollectionType" /\ ~d.deleted /\ d.parent # "trash"
        folderDocs == SelectSeq(docs, isFolder)
        folders == {folderDocs[i].uuid : i \in 1..Len(folderDocs)}
        docItem(d) ==
            RemarkableFileItem(d.visibleName, "None", "document", d.uuid,
                               <<>>)
        inFolder(d) == d.parent # "" /\ d.parent \in folders
        folderItem(f) ==
            RemarkableFileItem(f.visibleName, "Collapsed", "folder", f.uuid,
                Map(docItem,
                    SelectSeq(docs, LAMBDA d : isDocument(d) /\ inFolder(d)
                                                /\ d.parent = f.uuid)))
        rootDocs == SelectSeq(docs, LAMBDA d : isDocument(d) /\ ~inFolder(d))
        rootFolders ==
            SelectSeq(folderDocs,
                      LAMBDA f : f.parent = "" \/ f.parent \notin folders)
    IN  Map(docItem, rootDocs) \o Map(folderItem, rootFolders)

getTrashDocuments(docs) ==
    LET item(d) == RemarkableFileItem(d.visibleName, "None", "deleted", "",
                                      <<>>)
        trashedDocs ==
            Map(item, SelectSeq(docs, LAMBDA d : d.deleted
                                                   \/ d.parent = "trash"))
    IN  IF Len(trashedDocs) > 0 THEN trashedDocs
        ELSE << RemarkableFileItem("No deleted documents", "None", "info",
                                   "", <<>>) >>

getTemplates(files, ok) ==
    LET item(f) == RemarkableFileItem(f.stem, "None", "template", "", <<>>)
    IN  IF ok
        THEN Map(item, SelectSeq(files, LAMBDA f : f.ext \in {"png", "svg"}))
        ELSE << RemarkableFileItem("Error loading templates", "None",
                                   "error", "", <<>>) >>

\* getDocuments: the documents are loaded and listed in the current view
getDocuments(docs, raw, ok) ==
    IF ~ok
    THEN << RemarkableFileItem("Error loading documents", "None", "error",
                               "", <<>>) >>
    ELSE IF raw THEN getRawFileList(docs)
    ELSE getParsedDocuments(docs)

\* the folder's children found in this.documents
FolderChildren(docs, element) ==
    LET childItem(d) ==
            RemarkableFileItem(d.visibleName,
                IF d.type = "CollectionType" THEN "Collapsed" ELSE "None",
                IF d.type = "CollectionType" THEN "folder" ELSE "document",
                d.uuid, <<>>)
    IN  Map(childItem,
            SelectSeq(docs, LAMBDA d : d.parent = element.uuid /\ ~d.deleted))

\* what getChildren(element) returns; docs is this.documents after the
\* load, when one is made
Children(element, docs, raw, online, ok) ==
    IF ~online
    THEN << RemarkableFileItem("Not connected", "None", "offline", "", <<>>) >>
    ELSE IF element = RootElement
    THEN << DocumentsSection, TemplatesSection, TrashSection >>
    ELSE IF element.label = "Documents" THEN getDocuments(docs, raw, ok)
    ELSE IF element.label = "Templates" THEN getTemplates(TemplateFiles, ok)
    ELSE IF element.label = "Trash" THEN getTrashDocuments(docs)
    ELSE IF element.uuid # "" /\ element.children # <<>>
    THEN element.children
    ELSE IF element.uuid # "" /\ element.contextValue = "folder"
    THEN FolderChildren(docs, element)
    ELSE <<>>

\* getChildren loads the documents for this element
LoadsDocuments(element, online) ==
    online /\ element # RootElement /\ element.label = "Documents"

\* the elements the tree shows: the root and, for every element shown that
\* was asked for its children, these children
RECURSIVE Grow(_, _)
Grow(v, S) ==
    LET T == S \cup UNION {Range(v[e]) : e \in S \cap DOMAIN v}
    IN  IF T = S THEN S ELSE Grow(v, T)
Visible(v) == Grow(v, {RootElement})

\* the elements the editor can ask for their children
Expandable(v) == {e \in Visible(v) : e.collapsibleState # "None"}

\* ---------------------------------------------------------------- actions
\* refresh(): the tree is discarded and asked for again
refresh ==
    /\ view' = NoView
    /\ UNCHANGED << device, documents, showRawFiles, isConnected >>
    /\ UNCHANGED sessionVars
    /\ UNCHANGED converterVars

\* the handler of the connection manager's 'connected' event
OnConnected ==
    /\ isConnected' = TRUE
    /\ view' = NoView
    /\ UNCHANGED << device, documents, showRawFiles >>
    /\ UNCHANGED sessionVars
    /\ UNCHANGED converterVars

\* the handler of the connection manager's 'disconnected' event
OnDisconnected ==
    /\ isConnected' = FALSE
    /\ view' = NoView
    /\ UNCHANGED << device, documents, showRawFiles >>
    /\ UNCHANGED sessionVars
    /\ UNCHANGED converterVars

toggleView ==
    /\ showRawFiles' = ~showRawFiles
    /\ view' = NoView
    /\ UNCHANGED << device, documents, isConnected >>
    /\ UNCHANGED sessionVars
    /\ UNCHANGED converterVars

\* The editor asks for the children of the root or of an element it shows
\* that can be expanded.  ok: the listing of the remote directory succeeds.
getChildren ==
    \E element \in Expandable(view), ok \in BOOLEAN :
        LET docs == IF LoadsDocuments(element, isConnected) /\ ok
                    THEN loadDocuments(device) ELSE documents
            result == Children(element, docs, showRawFiles, isConnected, ok)
        IN  /\ documents' = docs
            /\ view' = [e \in DOMAIN view \cup {element} |->
                          IF e = element THEN result ELSE view[e]]
            /\ UNCHANGED << device, showRawFiles, isConnected >>
            /\ UNCHANGED sessionVars
            /\ UNCHANGED converterVars

\* an explorer on a tablet, beside a converter that is not running
ExplorerInit ==
    /\ script = "improved"
    /\ data = Truncated([sig |-> "bad", ver |-> "5", nlayers |-> 0], <<>>, 0)
    /\ ConverterIdle
    /\ device \in Devices
    /\ showRawFiles \in BOOLEAN
    /\ Constructed
    /\ ManagerConstructed
    /\ NoConversion

ExplorerNext ==
    \/ OnConnected
    \/ OnDisconnected
    \/ toggleView
    \/ refresh
    \/ getChildren

ExplorerSpec == ExplorerInit /\ [][ExplorerNext]_vars

\* ------------------------------------------------ the connection manager
\* Client objects are told apart by the order of their creation.  A Client
\* is "connecting" after connect(), "ready" after its 'ready' event,
\* "ending" after end() was called on it, "errored" after an 'error' event
\* and "ended" after its 'end' event; it delivers its events to the
\* handlers connect() attached, whether this.client still holds it or not.
Created == {c \in 1..MaxClients : clients[c] # "none"}

\* connect(): a new Client replaces this.client (the one held before is
\* neither ended nor are its handlers removed) and starts to connect.
connect ==
    /\ Cardinality(Created) < MaxClients
    /\ LET c == Cardinality(Created) + 1
       IN  /\ client' = c
           /\ clients' = [clients EXCEPT ![c] = "connecting"]
    /\ UNCHANGED << connected, rmFile, processes, resolved >>
    /\ UNCHANGED << device, documents, showRawFiles, isConnected, view >>
    /\ UNCHANGED converterVars

\* the 'ready' handler of Client c; emit('connected') runs the explorer's
\* handler before it returns
ClientReady(c) ==
    /\ clients[c] = "connecting"
    /\ clients' = [clients EXCEPT ![c] = "ready"]
    /\ connected' = TRUE
    /\ isConnected' = TRUE
    /\ view' = NoView
    /\ UNCHANGED << client, rmFile, processes, resolved >>
    /\ UNCHANGED << device, documents, showRawFiles >>
    /\ UNCHANGED converterVars

\* the 'error' handler of Client c; the explorer's handler of the 'error'
\* event it emits shows a message and changes nothing
ClientError(c) ==
    /\ clients[c] \in {"connecting", "ready", "ending"}
    /\ clients' = [clients EXCEPT ![c] = "errored"]
    /\ connected' = FALSE
    /\ UNCHANGED << client, rmFile, processes, resolved >>
    /\ UNCHANGED << device, documents, showRawFiles, isConnected, view >>
    /\ UNCHANGED converterVars

\* the 'end' handler of Client c; emit('disconnected') runs the explorer's
\* handler before it returns
ClientEnd(c) ==
    /\ clients[c] \in {"connecting", "ready", "ending", "errored"}
    /\ clients' = [clients EXCEPT ![c] = "ended"]
    /\ connected' = FALSE
    /\ isConnected' = FALSE
    /\ view' = NoView
    /\ UNCHANGED << client, rmFile, processes, resolved >>
    /\ UNCHANGED << device, documents, showRawFiles >>
    /\ UNCHANGED converterVars

\* disconnect(): the Client held is ended and dropped, the flag cleared;
\* no event is emitted
disconnect ==
    /\ IF client # 0
       THEN /\ clients' = [clients EXCEPT ![client] =
                             IF @ \in {"connecting", "ready"}
                             THEN "ending" ELSE @]
            /\ client' = 0
       ELSE UNCHANGED << client, clients >>
    /\ connected' = FALSE
    /\ UNCHANGED << rmFile, processes, resolved >>
    /\ UNCHANGED << device, documents, showRawFiles, isConnected, view >>
    /\ UNCHANGED converterVars

\* ------------------------------------------------------- convertRmToSvg
\* the input file as existsSync and statSync find it
RmFiles == {"missing", "empty", "data"}

\* what 'close' reports: an exit code, or null (-1) after a signal
ExitCodes == {0, 1, 2, -1}

\* a process whose code counts as a success
Succeeded_AnyCode(code) == code # -1

\* if (code === 0)
Succeeded(code) == code = 0

\* spawn(pythonCommand, [scriptPath, ...]): the process runs, or it could
\* not be started and its 'error' event is pending
spawn(scriptPath, started) ==
    [script |-> scriptPath,
     state  |-> IF started THEN "running" ELSE "spawn_failed",
     code   |-> -1]

\* convertRmToSvg(rmFilePath, outputPath) is called (no call is pending):
\* it resolves false for a missing or empty input, and starts the improved
\* script otherwise.
convertRmToSvg ==
    /\ resolved # "pending"
    /\ \E f \in RmFiles, started \in BOOLEAN :
         /\ rmFile' = f
         /\ IF f # "data"
            THEN /\ processes' = <<>>
                 /\ resolved' = "false"
            ELSE /\ processes' = << spawn("rM2svg_improved", started) >>
                 /\ resolved' = "pending"
    /\ UNCHANGED << client, connected, clients >>
    /\ UNCHANGED << device, documents, showRawFiles, isConnected, view >>
    /\ UNCHANGED converterVars

\* tryConversion's promise resolves with success for the process spawned
\* last, and the callbacks chained to it run: the call resolves, or the
\* original script is tried after the improved one.
Resolve(ended, success, started) ==
    IF success
    THEN /\ processes' = ended
         /\ resolved' = "true"
    ELSE IF Len(ended) = 1
    THEN /\ processes' = Append(ended, spawn("rM2svg", started))
         /\ resolved' = "pending"
    ELSE /\ processes' = ended
         /\ resolved' = "false"

\* the 'close' handler of the running process
ProcessClose ==
    /\ resolved = "pending"
    /\ processes[Len(processes)].state = "running"
    /\ \E code \in ExitCodes, started \in BOOLEAN :
         Resolve([processes EXCEPT ![Len(processes)] =
                    [@ EXCEPT !.state = "closed", !.code = code]],
                 Succeeded(code), started)
    /\ UNCHANGED << client, connected, clients, rmFile >>
    /\ UNCHANGED << device, documents, showRawFiles, isConnected, view >>
    /\ UNCHANGED converterVars

\* the 'error' handler of a process that could not be started (a 'close'
\* that follows finds the promise resolved and has no effect)
ProcessError ==
    /\ resolved = "pending"
    /\ processes[Len(processes)].state = "spawn_failed"
    /\ \E started \in BOOLEAN :
         Resolve([processes EXCEPT ![Len(processes)] =
                    [@ EXCEPT !.state = "errored"]],
                 FALSE, started)
    /\ UNCHANGED << client, connected, clients, rmFile >>
    /\ UNCHANGED << device, documents, showRawFiles, isConnected, view >>
    /\ UNCHANGED converterVars

\* an editor session on a tablet without files, beside a converter that is
\* not running
SessionInit ==
    /\ script = "improved"
    /\ data = Truncated([sig |-> "bad", ver |-> "5", nlayers |-> 0], <<>>, 0)
    /\ ConverterIdle
    /\ device = <<>>
    /\ showRawFiles = FALSE
    /\ Constructed
    /\ ManagerConstructed
    /\ NoConversion

SessionNext ==
    \/ connect
    \/ \E c \in 1..MaxClients : ClientReady(c)
    \/ \E c \in 1..MaxClients : ClientError(c)
    \/ \E c \in 1..MaxClients : ClientEnd(c)
    \/ disconnect
    \/ getChildren
    \/ convertRmToSvg
    \/ ProcessClose
    \/ ProcessError

SessionSpec == SessionInit /\ [][SessionNext]_vars

\* ================================================================ claims
\* the header of the input passes the script's validation
HeaderValid ==
    /\ data.len >= 47
    /\ HeaderDecodes(script, data)
    /\ HeaderMatches(script, data)
    /\ data.nlayers >= 1

Printed(kind) == \E i \in 1..Len(diag) : diag[i] = kind

\* <polyline elements opened and closed by the first n writes
Opens(n) == Cardinality({i \in 1..n : output[i].t = "polyline"})
Closes(n) == Cardinality({i \in 1..n : output[i].t = "/polyline"})

\* the points written, in order
PointsWritten == SelectSeq(output, LAMBDA tok : tok.t = "pt")

\* C1: for every buffer with a valid header, wherever decoding stops, the
\* writes start with the opening <svg> tag, every <polyline opened is
\* closed before anything else is opened or closed, points are written only
\* inside an open polyline, and </svg> is the last write before the file is
\* closed, which happens before the call ends.
C1_OutputWellFormed ==
    /\ output # <<>> => output[1].t = "svg"
    /\ \A n \in 1..Len(output) :
         /\ Opens(n) - Closes(n) \in {0, 1}
         /\ output[n].t = "pt" => Opens(n) - Closes(n) = 1
         /\ output[n].t \notin {"pt", "polyline", "/polyline"}
              => Opens(n) = Closes(n)
         /\ output[n].t = "/svg" => n = Len(output) /\ file = "closed"
         /\ output[n].t = "svg" => n = 1
    /\ file = "open" => output # <<>>
    /\ file = "closed" => output[Len(output)].t = "/svg"
    /\ (pc = "done" /\ HeaderValid) => (file = "closed" /\ exitCode = 0)
    /\ file = "closed" => pc = "done"

\* a conversion that stopped at a truncated segment and closed its output
C1_Witness ==
    /\ pc = "done"
    /\ file = "closed"
    /\ Printed("segment_missing")
    /\ Opens(Len(output)) >= 1

\* the input fails header validation
HeaderInvalid ==
    \/ data.len < 47
    \/ ~HeaderMatches(script, data)
    \/ data.nlayers = 0

\* C2: when the signature does not match, or the layer count is 0, or the
\* buffer is too short for the header, the call never gets past the header,
\* ends with exit code 1, and the output file is never opened or written.
C2_InvalidHeaderWritesNothing ==
    (calls > 0 /\ HeaderInvalid) =>
        /\ pc \in {"header", "done"}
        /\ pc = "done" => exitCode = 1
        /\ file = "none"
        /\ output = <<>>

\* a call that ended on a zero layer count under a matching signature
C2_Witness ==
    /\ pc = "done"
    /\ exitCode = 1
    /\ data.len >= 47
    /\ HeaderMatches(script, data)
    /\ data.nlayers = 0
    /\ file = "none"

\* the words of a stroke header in this file
HeaderWords == IF data.ver \in {"3", "4"} THEN 5 ELSE 6

\* a single-layer file whose only stroke declares more segments than the
\* buffer holds: the buffer ends inside segment C3_k
C3_k == (data.len - (47 + 4 + 4 * HeaderWords)) \div 24
C3_Case ==
    /\ HeaderValid
    /\ data.nlayers = 1
    /\ Len(data.body) >= 1 + HeaderWords
    /\ data.body[1] = 1
    /\ C3_k < data.body[1 + HeaderWords]
C3_Expected ==
    [i \in 1..C3_k |->
        MapPoint(F32(data.body[1 + HeaderWords + 6 * (i - 1) + 1]),
                 F32(data.body[1 + HeaderWords + 6 * (i - 1) + 2]),
                 args.x_width, args.y_width)]

\* C3: in a single-layer file whose only stroke declares n segments and whose
\* buffer ends inside segment k < n, the conversion succeeds, the points
\* written are exactly those of the k segments read, in file order, and the
\* document ends with </g></svg>.
C3_TruncatedSingleStroke ==
    (pc = "done" /\ C3_Case) =>
        /\ exitCode = 0
        /\ Len(PointsWritten) = C3_k
        /\ \A i \in 1..C3_k :
             /\ PointsWritten[i].x = C3_Expected[i].x
             /\ PointsWritten[i].y = C3_Expected[i].y
        /\ Len(output) >= 2
        /\ output[Len(output) - 1].t = "/g"
        /\ output[Len(output)].t = "/svg"

\* C4: the output of a call is a function of that call's own bytes and
\* options: a call with coloured_annotations unset writes only colour names
\* of the black/grey/white/yellow palette, whatever calls ran before it.
C4_PaletteOfOwnCall ==
    \A i \in 1..Len(output) :
        (output[i].t = "polyline" /\ ~args.coloured_annotations)
            => output[i].stroke \in {"black", "grey", "white", "yellow"}

\* C5: a header whose version digit is not 3, 4, 5 or 6 is accepted, and
\* the stroke headers of that file are read with the 24-byte layout.
C5_UnknownVersionAccepted ==
    (pc = "done" /\ data.len >= 47 /\ data.sig = "canon"
        /\ data.ver \notin {"3", "4", "5", "6"} /\ data.nlayers >= 1) =>
        /\ exitCode = 0
        /\ stroke_size = 24

\* C6: a stroke whose pen id is not in 0..8 is drawn with opacity 1, the raw
\* width divided by 2.3, and the colour of its colour index in the palette
\* of the call.
C6_UnknownPenDefaultStyle ==
    (pc = "segment" /\ segment = 0 /\ pen \notin 0..8) =>
        LET tok == output[Len(output)]
            w8  == F32(WordAt(data, lastRead.at + 12))
            c   == WordAt(data, lastRead.at + 4)
        IN  /\ tok.t = "polyline"
            /\ tok.opacity = 1000
            /\ tok.width = RoundDiv(w8 * 1250, 23)
            /\ c \in 0..3 =>
                 tok.stroke = Palette(IF args.coloured_annotations
                                      THEN "coloured" ELSE "normal")[c]

C8_ClampLogged ==
    (calls > 0 /\ HeaderValid /\ data.nlayers > 100) =>
        /\ layer <= 10
        /\ pc \in {"stroke", "segment"} => layer < 10
        /\ pc = "done" => (exitCode = 0 /\ Printed("clamp_layers"))

\* C8 as amended: a header declaring more than 100 layers is not rejected,
\* at most 10 layer iterations are performed, and the clamp warning is
\* logged exactly when verbose is set.
C8_ClampLoggedWhenVerbose ==
    (calls > 0 /\ HeaderValid /\ data.nlayers > 100) =>
        /\ layer <= 10
        /\ pc \in {"stroke", "segment"} => layer < 10
        /\ pc = "done" =>
             (exitCode = 0 /\ (Printed("clamp_layers") <=> args.verbose))

\* a verbose conversion of a 5,000-layer header that ran all ten layers
C8_Witness ==
    /\ pc = "done"
    /\ data.nlayers = 5000
    /\ layer = 10
    /\ args.verbose
    /\ Printed("clamp_layers")
    /\ exitCode = 0

\* C9: the read offset stays within 0..len(data), every read of s bytes
\* starts at the current offset with offset + s <= len(data) and advances
\* the offset by s, and within a call the offset never decreases.
C9_OffsetInBounds ==
    /\ [](/\ 0 <= offset
          /\ offset <= data.len
          /\ lastRead.at >= 0
          /\ lastRead.at + lastRead.size <= data.len)
    /\ [][calls' = calls =>
            /\ offset' >= offset
            /\ lastRead' # lastRead =>
                 /\ lastRead'.at = offset
                 /\ lastRead'.size > 0
                 /\ offset + lastRead'.size <= data.len
                 /\ offset' = offset + lastRead'.size
            /\ offset' # offset => lastRead' # lastRead]_vars

\* a segment was read that ends exactly at the end of the buffer
C9_Witness ==
    /\ pc = "segment"
    /\ lastRead.size = 24
    /\ lastRead.at + 24 = data.len
    /\ offset = data.len

\* the layer count after the clamp
C10_Layers == IF data.nlayers > 100 THEN 10 ELSE data.nlayers

\* C10: every conversion of a buffer with a valid header ends, and ends
\* with exit code 0; the layer loop runs at most the clamped layer count,
\* and the loop bodies entered are bounded by the input size (each either
\* reads at least 4 bytes or ends its loop).
C10_TerminatesWithSuccess ==
    /\ [](HeaderValid =>
            /\ layer <= C10_Layers
            /\ iters <= 2 * ((data.len - 47) \div 4) + 1
            /\ pc = "done" => exitCode = 0)
    /\ ((pc = "header" /\ HeaderValid) ~> (pc = "done" /\ exitCode = 0))

\* a conversion that ran out of bytes in a stroke header and still returned
C10_Witness ==
    /\ pc = "done"
    /\ exitCode = 0
    /\ Printed("stroke_header_missing")
    /\ iters >= 3

\* stroke-opening <polyline elements written so far
StrokeOpens ==
    Cardinality({i \in 1..Len(output) :
                    output[i].t = "polyline" /\ output[i].opens = "stroke"})

\* stroke headers read so far
StrokeHeadersRead ==
    Cardinality({i \in 1..Len(unpacks) :
                    unpacks[i].kind = "stroke" /\ unpacks[i].ok})

\* C11: at any point of a conversion the number of stroke-opening <polyline
\* elements written equals the number of stroke headers read so far,
\* whatever the stroke's segment count, truncation or opacity.
C11_EveryStrokeEmitted == StrokeOpens = StrokeHeadersRead

\* a conversion that read two stroke headers, the second of a stroke cut
\* inside a segment, and wrote both strokes
C11_Witness ==
    /\ pc = "done"
    /\ StrokeHeadersRead = 2
    /\ StrokeOpens = 2
    /\ \E i \in 1..Len(unpacks) :
         /\ unpacks[i].kind = "segment"
         /\ ~unpacks[i].ok
         /\ unpacks[i].stroke = 1

\* positions of the writes of one kind
Positions(kind) == {i \in 1..Len(output) : output[i].t = kind}

\* a file of one layer holding one Fineliner stroke of zero segments
C12_EmptyFineliner ==
    /\ data.nlayers = 1
    /\ data.len = 47 + 4 + 4 * HeaderWords
    /\ data.body[1] = 1
    /\ data.body[2] = 4
    /\ data.body[1 + HeaderWords] = 0

\* C12: the output of every successful conversion is one opening <svg>, one
\* opening page group <g>, the polylines of all strokes, exactly one
\* full-canvas <rect>, </g> and </svg>, in this order; for one layer with one
\* Fineliner stroke of zero segments it holds exactly one polyline, without
\* points, inside that one <g>.
C12_ElementOrder ==
    (pc = "done" /\ exitCode = 0) =>
        LET n == Len(output)
        IN  /\ Positions("svg") = {1}
            /\ Cardinality(Positions("g")) = 1
            /\ Positions("rect") = {n - 2}
            /\ Positions("/g") = {n - 1}
            /\ Positions("/svg") = {n}
            /\ output[n - 2].width = args.x_width
            /\ output[n - 2].height = args.y_width
            /\ \A i \in Positions("polyline") \cup Positions("/polyline")
                        \cup Positions("pt") :
                 /\ \A j \in Positions("g") : j < i
                 /\ i < n - 2
            /\ C12_EmptyFineliner =>
                 /\ Cardinality(Positions("polyline")) = 1
                 /\ Positions("pt") = {}

\* the document is neither deleted nor in the trash
Live(d) == ~d.deleted /\ d.parent # "trash"

\* the document is live, and so is every folder above it (n bounds the
\* depth looked at)
RECURSIVE LiveOnDevice(_, _)
LiveOnDevice(d, n) ==
    /\ Live(d)
    /\ \/ d.parent = ""
       \/ /\ n > 0
          /\ \E i \in 1..Len(documents) :
               /\ documents[i].uuid = d.parent
               /\ documents[i].type = "CollectionType"
               /\ LiveOnDevice(documents[i], n - 1)

\* the tree shows the document under its parent folder, or under the
\* Documents section when it has none
ShownUnderParent(d) ==
    \E e \in Visible(view) \cap DOMAIN view :
        /\ \E k \in 1..Len(view[e]) : view[e][k].uuid = d.uuid
        /\ IF d.parent = "" THEN e = DocumentsSection ELSE e.uuid = d.parent

\* every element that can be expanded was expanded, without a failure
FullyExpanded ==
    /\ Expandable(view) \subseteq DOMAIN view
    /\ \A e \in Visible(view) : e.contextValue # "error"

\* C13: in the parsed view, once every tree item is expanded, every loaded
\* document or folder that is neither deleted nor in the trash is shown
\* under the folder that is its parent on the device (under the Documents
\* root without one), a sub-folder of a folder that holds documents too.
C13_LiveItemsReachable ==
    (isConnected /\ ~showRawFiles /\ FullyExpanded) =>
        \A i \in 1..Len(documents) :
            LiveOnDevice(documents[i], Len(documents))
                => ShownUnderParent(documents[i])

\* the attempts at which the bytes ran out inside a stroke
RanOut == {i \in 1..Len(unpacks) :
              unpacks[i].kind \in {"stroke", "segment"} /\ ~unpacks[i].ok}

\* C14: once the bytes run out inside a stroke header or inside a segment of
\* a stroke of layer L, no further stroke header is read for layer L (and
\* so no further stroke polyline opened), whatever the stroke layout and
\* the number of bytes left over.
C14_NoStrokeAfterRunningOut ==
    \A i \in RanOut : \A j \in (i + 1)..Len(unpacks) :
        ~(/\ unpacks[j].kind = "stroke"
          /\ unpacks[j].ok
          /\ unpacks[j].layer = unpacks[i].layer)

\* the layer loop is about to read a stroke count that is there
C15_ReadsCount ==
    pc = "layer" /\ layer < nlayers /\ offset + 4 <= data.len

\* the attempts made for layer ly
AttemptsOf(ly) == {i \in 1..Len(unpacks) : unpacks[i].layer = ly}

\* C15: a layer whose stroke count is over 1,000,000 writes nothing and
\* consumes its 4-byte count only, and the next layer index reads its count
\* from the 4 bytes that follow; a count of exactly 1,000,000 starts the
\* stroke loop of the same layer.
C15_CorruptLayerSkipped ==
    /\ [][(C15_ReadsCount /\ WordAt(data, offset) > 1000000) =>
            /\ output' = output
            /\ offset' = offset + 4
            /\ layer' = layer + 1
            /\ pc' = "layer"]_vars
    /\ [][(C15_ReadsCount /\ WordAt(data, offset) = 1000000) =>
            /\ nstrokes' = 1000000
            /\ layer' = layer
            /\ pc' = "stroke"]_vars
    /\ [](\A i \in 1..Len(unpacks) :
            (unpacks[i].kind = "count" /\ unpacks[i].ok
               /\ WordAt(data, unpacks[i].at) > 1000000) =>
                /\ AttemptsOf(unpacks[i].layer) = {i}
                /\ i < Len(unpacks) =>
                     /\ unpacks[i + 1].kind = "count"
                     /\ unpacks[i + 1].layer = unpacks[i].layer + 1
                     /\ unpacks[i + 1].at = unpacks[i].at + 4)

\* a conversion that skipped its second layer and wrote the stroke of the
\* third, whose count follows the skipped one
C15_Witness ==
    /\ pc = "done"
    /\ exitCode = 0
    /\ Len(unpacks) >= 6
    /\ unpacks[5].kind = "count"
    /\ unpacks[5].layer = 1
    /\ WordAt(data, unpacks[5].at) = 1000001
    /\ unpacks[6].kind = "count"
    /\ unpacks[6].ok
    /\ WordAt(data, unpacks[6].at) = 1
    /\ StrokeOpens = 2

\* the layer loop is at a layer whose stroke count does not fit
C16_CountMissing ==
    pc = "layer" /\ layer < nlayers /\ offset + 4 > data.len

\* the closing part of the document of this script
C16_Closing ==
    IF script = "orig"
    THEN << [t |-> "rect", width |-> args.x_width, height |-> args.y_width],
            [t |-> "/g"], [t |-> "/svg"] >>
    ELSE << [t |-> "/svg"] >>

\* C16: when fewer than 4 bytes remain at the start of a layer, the layer
\* loop ends: no byte is consumed and nothing is read from then on, what was
\* written for earlier layers stays as it is, and the closing part of the
\* document is written after it.
C16_StopsAtMissingLayer ==
    /\ [][C16_CountMissing =>
            /\ pc' = "finish"
            /\ offset' = offset
            /\ output' = output
            /\ lastRead' = lastRead]_vars
    /\ [][pc = "finish" =>
            /\ pc' = "done"
            /\ exitCode' = 0
            /\ offset' = offset
            /\ lastRead' = lastRead
            /\ unpacks' = unpacks
            /\ output' = output \o C16_Closing
            /\ file' = "closed"]_vars
    /\ [](\A i \in 1..Len(unpacks) :
            (unpacks[i].kind = "count" /\ ~unpacks[i].ok) =>
                /\ i = Len(unpacks)
                /\ pc \in {"finish", "done"})

\* a conversion that wrote both strokes of its first layer, found one byte
\* left for the second layer's count, and closed the document
C16_Witness ==
    /\ pc = "done"
    /\ exitCode = 0
    /\ data.nlayers = 2
    /\ StrokeOpens = 2
    /\ Len(PointsWritten) = SweepSegs + 1
    /\ unpacks[Len(unpacks)].kind = "count"
    /\ ~unpacks[Len(unpacks)].ok
    /\ unpacks[Len(unpacks)].layer = 1
    /\ data.len - offset = 1
    /\ output[Len(output)].t = "/svg"

\* the stroke-header size of this file's version
C17_S == IF data.ver \in {"3", "4"} THEN 20 ELSE 24

\* the bytes an attempt of this kind asks for
C17_Size(kind) ==
    IF kind = "stroke" THEN C17_S
    ELSE IF kind = "segment" THEN 24
    ELSE IF kind = "count" THEN 4
    ELSE 47

\* the offset after attempt i
C17_After(i) ==
    unpacks[i].at + (IF unpacks[i].ok THEN unpacks[i].size ELSE 0)

\* C17: within one conversion the stroke-header size is fixed from the
\* header version when the header is accepted (20 for versions 3 and 4, 24
\* otherwise) and never changes; every stroke-header read advances the
\* offset by exactly that size, every segment read by 24 and every stroke
\* count read by 4.
C17_StrokeSizeFixed ==
    /\ [](pc \in {"open", "layer", "stroke", "segment", "finish"}
            => stroke_size = C17_S)
    /\ [][(pc \in {"open", "layer", "stroke", "segment", "finish"})
            => stroke_size' = stroke_size]_vars
    /\ [](/\ \A i \in 1..Len(unpacks) :
               /\ unpacks[i].size = C17_Size(unpacks[i].kind)
               /\ i < Len(unpacks) => unpacks[i + 1].at = C17_After(i)
          /\ unpacks # <<>> =>
               offset = IF unpacks[1].ok THEN C17_After(Len(unpacks)) ELSE 0)

\* a conversion of a version-9 file that read a stroke header of 24 bytes
\* and a segment
C17_Witness ==
    /\ pc = "done"
    /\ exitCode = 0
    /\ data.ver = "9"
    /\ \E i \in 1..Len(unpacks) :
         /\ unpacks[i].kind = "stroke"
         /\ unpacks[i].ok
         /\ unpacks[i].size = 24
         /\ i < Len(unpacks)
         /\ unpacks[i + 1].kind = "segment"
         /\ unpacks[i + 1].ok
         /\ unpacks[i + 1].at = unpacks[i].at + 24

\* C18: for a Brush or TiltPencil stroke, at every segment index k that is a
\* positive multiple of 8 the current polyline is closed and a new one is
\* opened whose first point is the mapped point of segment k-1, followed by
\* the point of segment k.
C18_RunJoinsPreviousPoint ==
    (/\ pc = "segment"
     /\ pen \in {0, 1}
     /\ segment > 1
     /\ (segment - 1) % 8 = 0
     /\ Len(segsRead) = segment) =>
        LET n == Len(output)
        IN  /\ output[n - 3].t = "/polyline"
            /\ output[n - 2].t = "polyline"
            /\ output[n - 1].t = "pt"
            /\ output[n - 1].x = segsRead[segment - 1].x
            /\ output[n - 1].y = segsRead[segment - 1].y
            /\ output[n].t = "pt"
            /\ output[n].x = segsRead[segment].x
            /\ output[n].y = segsRead[segment].y

\* the segments read for the current stroke
C19_SegmentsRead ==
    Cardinality({i \in 1..Len(unpacks) :
                    /\ unpacks[i].kind = "segment"
                    /\ unpacks[i].ok
                    /\ unpacks[i].layer = layer
                    /\ unpacks[i].stroke = stroke})

\* C19: a stroke whose pen is neither Brush nor TiltPencil is written as one
\* polyline: its stroke-opening <polyline, then exactly one point per
\* segment read for it, in file order, then the closing of the polyline.
C19_OnePolylinePerStroke ==
    /\ []((pc = "segment" /\ pen \notin {0, 1}) =>
            LET n == Len(output)
                m == Len(segsRead)
            IN  /\ m = segment
                /\ m = C19_SegmentsRead
                /\ n > m
                /\ output[n - m].t = "polyline"
                /\ output[n - m].opens = "stroke"
                /\ \A i \in 1..m :
                     /\ output[n - m + i].t = "pt"
                     /\ output[n - m + i].x = segsRead[i].x
                     /\ output[n - m + i].y = segsRead[i].y
                     /\ segsRead[i] =
                          MapPoint(F32(WordAt(data, offset - 24 * (m - i + 1))),
                                   F32(WordAt(data,
                                              offset - 24 * (m - i + 1) + 4)),
                                   args.x_width, args.y_width))
    /\ [][(pc = "segment" /\ pen \notin {0, 1} /\ pc' # "segment") =>
            output' = Append(output, [t |-> "/polyline"])]_vars

\* a Ballpoint stroke of LongSegs segments, all read
C19_Witness ==
    /\ pc = "segment"
    /\ pen = 2
    /\ segment = LongSegs
    /\ segment > 8
    /\ Len(segsRead) = segment

\* a stroke header was just read and its polyline opened
C20_StrokeOpened == pc = "segment" /\ segment = 0 /\ Len(segsRead) = 0

\* the colour index the file stores for the stroke just read
C20_Stored == WordAt(data, lastRead.at + 4)

\* the colour index the statement has the stroke drawn with
C20_Drawn ==
    IF pen = 6 THEN 2
    ELSE IF pen = 5 /\ args.coloured_annotations THEN 3
    ELSE C20_Stored

\* C20: an Eraser stroke is drawn with colour index 2 and a Highlighter
\* stroke with colour index 3 when coloured_annotations is set, whatever
\* index the file stores; every other stroke is drawn with the stored
\* index (an index of the palette).
C20_PenColourOverride ==
    (C20_StrokeOpened /\ C20_Drawn \in 0..3) =>
        /\ colour = C20_Drawn
        /\ output[Len(output)].t = "polyline"
        /\ output[Len(output)].stroke = Palette(stroke_colour)[C20_Drawn]
        /\ pen = 6 => output[Len(output)].stroke = "white"
        /\ (pen = 5 /\ args.coloured_annotations)
             => output[Len(output)].stroke = "yellow"

\* an Eraser stroke stored with colour index 7 was opened in white
C20_Witness ==
    /\ C20_StrokeOpened
    /\ pen = 6
    /\ C20_Stored = 7
    /\ output[Len(output)].stroke = "white"

\* C21: a stroke whose colour index (after the pen's override) is not in
\* {0,1,2,3} is drawn with the colour name black, with coloured_annotations
\* unset and set.
C21_UnknownColourIsBlack ==
    (C20_StrokeOpened /\ C20_Drawn \notin 0..3) =>
        /\ output[Len(output)].t = "polyline"
        /\ output[Len(output)].stroke = "black"

\* the polyline written last
C22_Written == output[CHOOSE i \in Positions("polyline") :
                        \A j \in Positions("polyline") : j <= i]

\* a Brush or TiltPencil stroke has just restarted its polyline: the
\* segment read last has an index that is a multiple of 8
C22_RunOpened ==
    /\ pc = "segment" /\ pen \in {0, 1} /\ segment % 8 = 1
    /\ lastRead.size = SegmentSize /\ Len(segsRead) > 0

C22_Pressure == F32(WordAt(data, lastRead.at + 8))
C22_Tilt == F32(WordAt(data, lastRead.at + 12))

\* the run formula taken over the base width already divided by 2.3, in
\* thousandths
C22_RunFormula ==
    IF pen = 0 THEN BrushWidthText(width, C22_Pressure, C22_Tilt)
    ELSE TiltWidthText(width, C22_Tilt)

\* the run formula taken over the raw width and divided by 2.3, in
\* thousandths (width is 8 times the raw width in eighths for pens 0 and 1)
C22_RunFormulaRaw ==
    LET w8 == width \div 8
        p8 == C22_Pressure
        t8 == C22_Tilt
    IN  IF pen = 0
        THEN RoundDiv(5 * t8 * (6 * w8 - 80) * (256 + p8 * p8 * p8) * 625,
                      1024 * 23)
        ELSE RoundDiv((10 * t8 - 16) * (w8 - 14) * 1250, 23)

\* C22: the stroke-width of every polyline written is the pen's width
\* formula result divided by 2.3: for the polyline that opens a stroke the
\* formula of the pen over the raw width of the stroke header, and for the
\* polyline of a run the run formula, divided by 2.3 once more before it is
\* written (2.3 times the written value is the run formula, to a
\* thousandth), or taken over the raw width and then divided.
C22_WidthDividedOnce ==
    /\ C20_StrokeOpened =>
         output[Len(output)].width
           = WidthText(PenWidth64(pen,
                                  F32(WordAt(data, lastRead.at + 12))))
    /\ C22_RunOpened =>
         \/ /\ 23 * C22_Written.width - 10 * C22_RunFormula <= 23
            /\ 10 * C22_RunFormula - 23 * C22_Written.width <= 23
         \/ C22_Written.width = C22_RunFormulaRaw

\* a segment has just been read and its point written
C23_PointWritten == pc = "segment" /\ segment >= 1 /\ Len(segsRead) > 0

\* the native point of the segment read last, in eighths, and its image
C23_Native == [x |-> F32(WordAt(data, lastRead.at)),
               y |-> F32(WordAt(data, lastRead.at + 4))]
C23_Mapped == segsRead[Len(segsRead)]

C23_InNativeCanvas ==
    /\ 0 <= C23_Native.x /\ C23_Native.x <= 8 * default_x_width
    /\ 0 <= C23_Native.y /\ C23_Native.y <= 8 * default_y_width

\* one of the two scale factors, canvas/native along x or along y, gives
\* both coordinates of the image
C23_SameScale ==
    \E s \in { [n |-> args.x_width, d |-> default_x_width],
               [n |-> args.y_width, d |-> default_y_width] } :
        /\ C23_Mapped.x = MulDivRound(C23_Native.x * s.n, 125, s.d)
        /\ C23_Mapped.y = MulDivRound(C23_Native.y * s.n, 125, s.d)

\* C23: every native point of the 1404 x 1872 page is mapped into the
\* target canvas, 0 <= x' <= canvasWidth and 0 <= y' <= canvasHeight (in
\* thousandths), with one scale factor for x and y.
C23_MappedInsideCanvas ==
    (C23_PointWritten /\ C23_InNativeCanvas) =>
        /\ 0 <= C23_Mapped.x /\ C23_Mapped.x <= 1000 * args.x_width
        /\ 0 <= C23_Mapped.y /\ C23_Mapped.y <= 1000 * args.y_width
        /\ C23_SameScale

\* the canvas the converter is given by default
C24_DefaultCanvas ==
    args.x_width = default_x_width /\ args.y_width = default_y_width

\* C24: with the target canvas 1404 x 1872 the ratio is not above 1, so
\* the branch without the ratio factor on x is taken, and every native
\* point is written as it is stored (eighths as thousandths).
C24_IdentityOnDefaultCanvas ==
    (C23_PointWritten /\ C24_DefaultCanvas) =>
        /\ ~RatioAboveOne(args.x_width, args.y_width)
        /\ C23_Mapped.x = 125 * C23_Native.x
        /\ C23_Mapped.y = 125 * C23_Native.y
        /\ output[Len(output)]
             = [t |-> "pt", x |-> 125 * C23_Native.x,
                y |-> 125 * C23_Native.y]

\* the corner (1404, 1872) was written as 1404.000,1872.000
C24_Witness ==
    /\ C23_PointWritten /\ C24_DefaultCanvas
    /\ C23_Native = [x |-> 8 * 1404, y |-> 8 * 1872]
    /\ output[Len(output)] = [t |-> "pt", x |-> 1404000, y |-> 1872000]

\* the lines that report a recoverable condition
C25_RecoveryLines ==
    {"clamp_layers", "layer_header_missing", "layer_skipped",
     "stroke_header_missing", "segment_missing", "unknown_pen",
     "unknown_color", "unknown_version"}

\* C25: with verbose unset no line about a recoverable condition is
\* printed (layer-count clamp, missing stroke count, oversized stroke
\* count, truncated stroke header or segment, unknown pen, unknown colour
\* index, unknown version).
C25_SilentWithoutVerbose ==
    (pc # "idle" /\ ~args.verbose) =>
        \A i \in 1..Len(diag) : diag[i] \notin C25_RecoveryLines

\* the unpack attempts of the given kind and outcome
C26_Attempts(kind, ok) ==
    {i \in 1..Len(unpacks) : unpacks[i].kind = kind /\ unpacks[i].ok = ok}

\* the lines of the given kind
C26_Lines(kind) == {i \in 1..Len(diag) : diag[i] = kind}

\* the stroke headers read whose pen id is unknown, whose colour index
\* (after the pen's override) is not in the palette, and the stroke counts
\* read that are oversized
C26_UnknownPens ==
    {i \in C26_Attempts("stroke", TRUE) :
        UnknownPen(WordAt(data, unpacks[i].at))}
C26_UnknownColours ==
    {i \in C26_Attempts("stroke", TRUE) :
        PenColour(WordAt(data, unpacks[i].at),
                  WordAt(data, unpacks[i].at + 4),
                  args.coloured_annotations) \notin 0..3}
C26_Oversized ==
    {i \in C26_Attempts("count", TRUE) :
        TooManyStrokes(WordAt(data, unpacks[i].at))}

\* C26: with verbose set, a conversion that ends has printed a line for
\* every recovery decision it took: the clamp of the layer count, every
\* missing stroke count, every skipped layer, every truncated stroke header
\* and segment, every unknown pen id, every colour index replaced by the
\* default, and the fallback of an unknown version to the V5 layout.
C26_EveryRecoveryLogged ==
    (pc = "done" /\ exitCode = 0 /\ args.verbose) =>
        /\ data.nlayers > MaxSaneLayers => Printed("clamp_layers")
        /\ ~KnownVersion(data.ver) => Printed("unknown_version")
        /\ Cardinality(C26_Lines("layer_header_missing"))
             >= Cardinality(C26_Attempts("count", FALSE))
        /\ Cardinality(C26_Lines("layer_skipped"))
             >= Cardinality(C26_Oversized)
        /\ Cardinality(C26_Lines("stroke_header_missing"))
             >= Cardinality(C26_Attempts("stroke", FALSE))
        /\ Cardinality(C26_Lines("segment_missing"))
             >= Cardinality(C26_Attempts("segment", FALSE))
        /\ Cardinality(C26_Lines("unknown_pen"))
             >= Cardinality(C26_UnknownPens)
        /\ Cardinality(C26_Lines("unknown_color"))
             >= Cardinality(C26_UnknownColours)

\* the stroke's polyline has just been closed
C27_StrokeClosed ==
    /\ pc = "stroke" /\ stroke >= 1
    /\ output[Len(output)].t = "/polyline"

\* the write that opened the stroke closed last
C27_Opening ==
    CHOOSE i \in 1..Len(output) :
        /\ output[i].t = "polyline" /\ output[i].opens = "stroke"
        /\ \A j \in (i + 1)..Len(output) :
             output[j].t = "polyline" => output[j].opens = "run"

\* the polylines of the stroke closed last
C27_Polylines == {i \in C27_Opening..Len(output) : output[i].t = "polyline"}

\* C27: a Brush or TiltPencil stroke of which n segments were read has
\* 1 + ceil(n/8) polylines (one for n = 0), and the first of them is closed
\* before any point is written.
C27_RunCount ==
    (C27_StrokeClosed /\ pen \in {0, 1}) =>
        /\ Cardinality(C27_Polylines) = 1 + ((Len(segsRead) + 7) \div 8)
        /\ output[C27_Opening + 1].t = "/polyline"

\* a Brush stroke of 9 segments was closed with 3 polylines
C27_Witness ==
    /\ C27_StrokeClosed /\ pen = 0 /\ Len(segsRead) = 9
    /\ Cardinality(C27_Polylines) = 3

\* the processes of the call that run, and those that exited with code 0
C28_Running == {i \in 1..Len(processes) : processes[i].state = "running"}
C28_ExitedZero ==
    {i \in 1..Len(processes) :
        processes[i].state = "closed" /\ processes[i].code = 0}

\* C28: a call of convertRmToSvg never has two converter processes running
\* at once; it spawns at most two, the improved script first and the
\* original one only after the improved one ended without success; it
\* resolves true exactly when a process it started exited with code 0, and
\* for a missing or empty input it resolves false and spawns nothing.
C28_OneScriptAtATime ==
    /\ Cardinality(C28_Running) <= 1
    /\ Len(processes) <= 2
    /\ Len(processes) >= 1 => processes[1].script = "rM2svg_improved"
    /\ Len(processes) = 2 =>
         /\ processes[2].script = "rM2svg"
         /\ processes[1].state \in {"closed", "errored"}
         /\ processes[1].code # 0
    /\ resolved = "true" <=> C28_ExitedZero # {}
    /\ resolved \in {"true", "false"} => C28_Running = {}
    /\ rmFile \in {"missing", "empty"} =>
         (processes = <<>> /\ resolved = "false")

\* the call resolved true through the original script, started after the
\* improved one had exited with code 1
C28_Witness ==
    /\ resolved = "true"
    /\ Len(processes) = 2
    /\ processes[1].code = 1
    /\ processes[2].state = "closed" /\ processes[2].code = 0

\* the connection in use: the Client this.client holds has had its 'ready'
\* event and no 'error' or 'end' event, and disconnect() was not called
\* since
C29_Established == client # 0 /\ clients[client] = "ready"

\* C29: while the connection made by the last connect() is established
\* and connected is true, an event of a Client that disconnect() ended
\* before (an 'error' or 'end' event that arrives late) leaves connected
\* true and is not passed on to the explorer.
C29_LateEventIgnored ==
    [][\A c \in 1..MaxClients :
         (/\ C29_Established /\ connected
          /\ c # client
          /\ clients[c] = "ending" /\ clients'[c] # "ending")
           => (connected' /\ isConnected' = isConnected)]_vars

\* C30: whenever the explorer's isConnected is true, so that the root of
\* the tree lists Documents, Templates and Trash, the connection manager's
\* connected is true.
C30_ExplorerFollowsManager ==
    /\ isConnected => connected
    /\ (RootElement \in DOMAIN view
          /\ view[RootElement]
               = << DocumentsSection, TemplatesSection, TrashSection >>)
         => connected

====
